---- MODULE Spec2Model ----
(***************************************************************************)
(* Model of tg/configuration/app_config.py (TurboGears 2):                 *)
(*   - DispatchingConfigWrapper, the attribute/item facade over the        *)
(*     request-local configuration provider (tg.request_local.config);     *)
(*   - AppConfig, the facade over the application configurator, with the   *)
(*     four lifecycle callbacks it registers on the process-wide hooks.    *)
(*                                                                         *)
(* A configuration key is a dotted string.  It is represented by the       *)
(* sequence of its dot-separated segments: 'tg.app_globals' is             *)
(* <<"tg", "app_globals">>.  With this representation                      *)
(* key.startswith(prefix + '.') is "prefix is a proper prefix of key" and  *)
(* key[len(prefix + '.'):] is the rest of the sequence.                    *)
(* A mapping (a Python dict) is a function from a finite set of keys to    *)
(* values; values are the strings "True", "False", "None".                 *)
(***************************************************************************)
EXTENDS Integers, Sequences, FiniteSets, TLC

VARIABLES
    process_configs,   \* provider: stack of process-wide mappings
    thread_configs,    \* provider: per execution context, stack of context-local mappings
    last,              \* the last wrapper / AppConfig operation and its outcome
    nops,              \* number of operations performed so far
    configurator,      \* AppConfig: per instance, the content of the _configurator slot
    ninst,             \* AppConfig: number of instances constructed
    hooks,             \* tg.hooks: per hook name, the ordered list of registered callables
    built,             \* per instance, whether its blueprint was passed to application construction
    trace,             \* callbacks invoked, in order, by the last application build
    outcome            \* result of the last application build: "none", "app" or "error"

vars == <<process_configs, thread_configs, last, nops,
          configurator, ninst, hooks, built, trace, outcome>>

wrapperVars == <<process_configs, thread_configs>>
appVars == <<configurator, ninst, hooks, built, trace, outcome>>

----------------------------------------------------------------------------
(* Bounds of the model *)

\* operations performed in one behaviour on the configuration wrapper
MaxOps == 3
\* operations performed in one behaviour on AppConfig instances
MaxAppOps == 4
\* AppConfig instances constructed in the process
MaxInstances == 2
\* listeners registered on the hooks by the application
MaxListeners == 2
\* depth of a context's stack of context-local mappings
MaxThreadConfigs == 1

Contexts == {"A", "B"}
Values == {"True", "False"}

----------------------------------------------------------------------------
(* Mappings *)

EmptyMap == [k \in {} |-> "None"]

Put(m, k, v) == [x \in (DOMAIN m) \cup {k} |-> IF x = k THEN v ELSE m[x]]

Del(m, k) == [x \in (DOMAIN m) \ {k} |-> m[x]]

\* dict.update
Update(m, n) == [x \in (DOMAIN m) \cup (DOMAIN n) |-> IF x \in DOMAIN n THEN n[x] ELSE m[x]]

\* key.startswith(prefix + '.')
StartsWithDot(key, prefix) ==
    /\ Len(key) > Len(prefix)
    /\ SubSeq(key, 1, Len(prefix)) = prefix

\* tg.configuration.utils.get_partial_dict(prefix, dictionary, Bunch):
\* the items whose key starts with prefix + '.', with that prefix stripped;
\* AttributeError when there is none.
get_partial_dict(prefix, dictionary) ==
    LET matching == {key \in DOMAIN dictionary : StartsWithDot(key, prefix)}
        stripped == {SubSeq(key, Len(prefix) + 1, Len(key)) : key \in matching}
        new_dict == [s \in stripped |-> dictionary[prefix \o s]]
    IN  IF matching # {}
        THEN [kind |-> "partial", val |-> new_dict]
        ELSE [kind |-> "AttributeError", val |-> EmptyMap]

----------------------------------------------------------------------------
(* The provider and the module-level state *)

defaults ==
    [k \in {<<"debug">>, <<"package">>, <<"tg", "app_globals">>,
            <<"tg", "strict_tmpl_context">>, <<"i18n", "lang">>} |->
        CASE k = <<"debug">> -> "False"
          [] k = <<"package">> -> "None"
          [] k = <<"tg", "app_globals">> -> "None"
          [] k = <<"tg", "strict_tmpl_context">> -> "True"
          [] k = <<"i18n", "lang">> -> "None"]

\* names that are attributes of the provider object itself
ProviderAttrs == {<<"current_conf">>, <<"push_process_config">>}

\* DispatchingConfig.current_conf(): the context-local mapping on top of the
\* context's stack when there is one, else the process-wide mapping
current_conf(ctx) ==
    IF Len(thread_configs[ctx]) > 0
    THEN thread_configs[ctx][Len(thread_configs[ctx])]
    ELSE process_configs[Len(process_configs)]

\* current_conf()[key] = value / del current_conf()[key]: the mutation reaches
\* the dict object current_conf() returned
StoreCurrent(ctx, m) ==
    IF Len(thread_configs[ctx]) > 0
    THEN /\ thread_configs' = [thread_configs EXCEPT ![ctx][Len(thread_configs[ctx])] = m]
         /\ UNCHANGED process_configs
    ELSE /\ process_configs' = [process_configs EXCEPT ![Len(process_configs)] = m]
         /\ UNCHANGED thread_configs

----------------------------------------------------------------------------
(* Outcomes of a handler *)

NoKey == <<>>

Returned(v) == [kind |-> "value", val |-> v, sub |-> EmptyMap]
Raised(e) == [kind |-> e, val |-> "", sub |-> EmptyMap]
Done == [kind |-> "ok", val |-> "", sub |-> EmptyMap]

Record(op, ctx, key, val, res) ==
    /\ nops < MaxOps
    /\ last' = [op |-> op, ctx |-> ctx, inst |-> 0, key |-> key, val |-> val, res |-> res]
    /\ nops' = nops + 1

\* an operation on the configuration wrapper leaves every AppConfig alone
WrapperOp(op, ctx, key, val, res) ==
    /\ Record(op, ctx, key, val, res)
    /\ UNCHANGED appVars

----------------------------------------------------------------------------
(* DispatchingConfigWrapper: what each handler returns or raises *)

\* __getitem__: self.config_proxy.current_conf()[key]
getitem_result(ctx, key) ==
    IF key \in DOMAIN current_conf(ctx)
    THEN Returned(current_conf(ctx)[key])
    ELSE Raised("KeyError")

\* __getattr__ with the exact lookup and the partial-key lookup swapped
getattr_result_partial_first(ctx, key) ==
    IF key \in ProviderAttrs
    THEN [kind |-> "provider_attr", val |-> key[1], sub |-> EmptyMap]
    ELSE LET p == get_partial_dict(key, current_conf(ctx))
         IN  IF p.kind = "partial"
             THEN [kind |-> "partial", val |-> "", sub |-> p.val]
             ELSE getitem_result(ctx, key)

\* __getattr__ with a bare "except KeyError: return None" in place of the
\* partial-key lookup
getattr_result_default_none(ctx, key) ==
    IF key \in ProviderAttrs
    THEN [kind |-> "provider_attr", val |-> key[1], sub |-> EmptyMap]
    ELSE IF key \in DOMAIN current_conf(ctx)
         THEN Returned(current_conf(ctx)[key])
         ELSE Returned("None")

\* __getattr__: the provider's own attribute first; then the exact key of the
\* current mapping; then the partial dictionary of the keys prefixed by key + '.'
getattr_result(ctx, key) ==
    IF key \in ProviderAttrs
    THEN [kind |-> "provider_attr", val |-> key[1], sub |-> EmptyMap]
    ELSE IF key \in DOMAIN current_conf(ctx)
         THEN Returned(current_conf(ctx)[key])
         ELSE LET p == get_partial_dict(key, current_conf(ctx))
              IN  IF p.kind = "partial"
                  THEN [kind |-> "partial", val |-> "", sub |-> p.val]
                  ELSE Raised("AttributeError")

\* __delattr__ letting the KeyError through
delattr_result_keyerror(ctx, name) ==
    IF name \in DOMAIN current_conf(ctx) THEN Done ELSE Raised("KeyError")

\* __delattr__: KeyError is translated to AttributeError
delattr_result(ctx, name) ==
    IF name \in DOMAIN current_conf(ctx) THEN Done ELSE Raised("AttributeError")

----------------------------------------------------------------------------
(* DispatchingConfigWrapper: the handlers *)

__getitem__(ctx, key) ==
    /\ WrapperOp("__getitem__", ctx, key, "", getitem_result(ctx, key))
    /\ UNCHANGED wrapperVars

\* __setitem__ writing to the process-wide mapping whatever the context
setitem_process_wide(ctx, key, value) ==
    /\ process_configs' = [process_configs EXCEPT
                              ![Len(process_configs)] = Put(@, key, value)]
    /\ UNCHANGED thread_configs
    /\ WrapperOp("__setitem__", ctx, key, value, Done)

__setitem__(ctx, key, value) ==
    /\ StoreCurrent(ctx, Put(current_conf(ctx), key, value))
    /\ WrapperOp("__setitem__", ctx, key, value, Done)

__getattr__(ctx, key) ==
    /\ WrapperOp("__getattr__", ctx, key, "", getattr_result(ctx, key))
    /\ UNCHANGED wrapperVars

__setattr__(ctx, key, value) ==
    /\ StoreCurrent(ctx, Put(current_conf(ctx), key, value))
    /\ WrapperOp("__setattr__", ctx, key, value, Done)

__delattr__(ctx, name) ==
    /\ IF name \in DOMAIN current_conf(ctx)
       THEN StoreCurrent(ctx, Del(current_conf(ctx), name))
       ELSE UNCHANGED wrapperVars
    /\ WrapperOp("__delattr__", ctx, name, "", delattr_result(ctx, name))

\* __delitem__: self.__delattr__(key)
__delitem__(ctx, key) ==
    /\ IF key \in DOMAIN current_conf(ctx)
       THEN StoreCurrent(ctx, Del(current_conf(ctx), key))
       ELSE UNCHANGED wrapperVars
    /\ WrapperOp("__delitem__", ctx, key, "", delattr_result(ctx, key))

\* the length is carried as the set of keys counted
__len__(ctx) ==
    /\ WrapperOp("__len__", ctx, NoKey, "",
              [kind |-> "len", val |-> "", sub |-> current_conf(ctx)])
    /\ UNCHANGED wrapperVars

__iter__(ctx) ==
    /\ WrapperOp("__iter__", ctx, NoKey, "",
              [kind |-> "iter", val |-> "", sub |-> current_conf(ctx)])
    /\ UNCHANGED wrapperVars

----------------------------------------------------------------------------
(* The provider: context-local mappings *)

\* what an application supplies on top of the defaults
AppConfs == {EmptyMap, [k \in {<<"tg", "app_globals">>} |-> "True"]}

\* a context-local mapping is installed for ctx: a copy of the defaults merged
\* with the application's configuration
push_thread_config(ctx, conf) ==
    /\ Len(thread_configs[ctx]) < MaxThreadConfigs
    /\ thread_configs' = [thread_configs EXCEPT ![ctx] = Append(@, Update(defaults, conf))]
    /\ UNCHANGED process_configs
    /\ WrapperOp("push_thread_config", ctx, NoKey, "", Done)

pop_thread_config(ctx) ==
    /\ Len(thread_configs[ctx]) > 0
    /\ thread_configs' = [thread_configs EXCEPT ![ctx] = SubSeq(@, 1, Len(@) - 1)]
    /\ UNCHANGED process_configs
    /\ WrapperOp("pop_thread_config", ctx, NoKey, "", Done)

----------------------------------------------------------------------------
(* Inputs of the wrapper operations *)

SetKeys == {<<"debug">>, <<"tg">>, <<"current_conf">>}
GetKeys == {<<"debug">>, <<"tg">>, <<"current_conf">>, <<"i18n">>}
DelKeys == {<<"debug">>, <<"tg">>, <<"tg", "app_globals">>}

----------------------------------------------------------------------------
(* Module load, and the behaviours of the configuration wrapper *)

HookNames == {"initialized_config", "startup", "before_wsgi_middlewares",
              "before_config", "after_wsgi_middlewares", "after_config"}

\* reqlocal_config.push_process_config(deepcopy(defaults));
\* config = DispatchingConfigWrapper(reqlocal_config); no AppConfig yet
Init ==
    /\ process_configs = <<defaults>>
    /\ thread_configs = [c \in Contexts |-> <<>>]
    /\ last = [op |-> "import", ctx |-> "", inst |-> 0, key |-> NoKey, val |-> "",
               res |-> Done]
    /\ nops = 0
    /\ configurator = <<>>
    /\ ninst = 0
    /\ hooks = [h \in HookNames |-> <<>>]
    /\ built = <<>>
    /\ trace = <<>>
    /\ outcome = "none"

Next ==
    \/ \E ctx \in Contexts, key \in GetKeys : __getitem__(ctx, key)
    \/ \E ctx \in Contexts, key \in SetKeys, value \in Values : __setitem__(ctx, key, value)
    \/ \E ctx \in Contexts, key \in GetKeys : __getattr__(ctx, key)
    \/ \E ctx \in Contexts, key \in SetKeys, value \in Values : __setattr__(ctx, key, value)
    \/ \E ctx \in Contexts, name \in DelKeys : __delattr__(ctx, name)
    \/ \E ctx \in Contexts, key \in DelKeys : __delitem__(ctx, key)
    \/ \E ctx \in Contexts : __len__(ctx)
    \/ \E ctx \in Contexts : __iter__(ctx)
    \/ \E ctx \in Contexts, conf \in AppConfs : push_thread_config(ctx, conf)
    \/ \E ctx \in Contexts : pop_thread_config(ctx)

Spec == Init /\ [][Next]_vars

----------------------------------------------------------------------------
(* tg.hooks: the process-wide registry *)

\* a callable registered on a hook: one of the closures AppConfig.__init__
\* defines (func, inst), or a listener of the application (id, raises)
Callback(name, i) == [func |-> name, inst |-> i, id |-> 0, raises |-> FALSE]
Listener(id, raises) == [func |-> "listener", inst |-> 0, id |-> id, raises |-> raises]

\* an entry of the trace: the callable invoked for a hook, and whether the
\* call ended by an exception
Event(hook, f, raised) ==
    [hook |-> hook, func |-> f.func, inst |-> f.inst, id |-> f.id, raised |-> raised]

Completed == [events |-> <<>>, ok |-> TRUE]

\* the listeners of a hook are called in registration order; with
\* trap_exceptions an exception is logged and the notification goes on,
\* without it the exception ends the notification and reaches the caller
RECURSIVE CallListeners(_, _, _)
CallListeners(funcs, hook, trap_exceptions) ==
    IF funcs = <<>>
    THEN Completed
    ELSE LET f == Head(funcs)
             ev == Event(hook, f, f.raises)
         IN  IF f.raises /\ ~trap_exceptions
             THEN [events |-> <<ev>>, ok |-> FALSE]
             ELSE LET rest == CallListeners(Tail(funcs), hook, trap_exceptions)
                  IN  [events |-> <<ev>> \o rest.events, ok |-> rest.ok]

\* tg.hooks.notify(hook_name, trap_exceptions=...)
notify(hook_name, trap_exceptions) ==
    CallListeners(hooks[hook_name], hook_name, trap_exceptions)

\* tg.hooks.notify_with_value(hook_name, value): no trapping
notify_with_value(hook_name) ==
    CallListeners(hooks[hook_name], hook_name, FALSE)

\* tg.hooks.register(hook_name, func) for each pair of regs, in order
RECURSIVE register_all(_, _)
register_all(registry, regs) ==
    IF regs = <<>>
    THEN registry
    ELSE register_all([registry EXCEPT ![Head(regs).hook] = Append(@, Head(regs).func)],
                      Tail(regs))

----------------------------------------------------------------------------
(* AppConfig: the callbacks of __init__ *)

\* after_init_config(conf): pass
after_init_config(i) == Completed

\* _on_config_ready(_, conf): self.after_init_config(conf)
_on_config_ready(i) == after_init_config(i)

\* _startup_hook without trap_exceptions
startup_hook_untrapped == notify("startup", FALSE)

\* _startup_hook: tg.hooks.notify('startup', trap_exceptions=True)
_startup_hook == notify("startup", TRUE)

\* _before_config_hook swallowing the listeners' exceptions
before_config_hook_trapping ==
    [events |-> notify("before_config", TRUE).events, ok |-> TRUE]

\* _before_config_hook: tg.hooks.notify_with_value('before_config', app)
_before_config_hook == notify_with_value("before_config")

\* _after_config_hook: tg.hooks.notify_with_value('after_config', app)
_after_config_hook == notify_with_value("after_config")

\* __init__ registering _startup_hook only for the first instance
init_registrations_startup_once(i) ==
    <<[hook |-> "initialized_config", func |-> Callback("_on_config_ready", i)]>>
    \o (IF i = 1
        THEN <<[hook |-> "initialized_config", func |-> Callback("_startup_hook", i)]>>
        ELSE <<>>)
    \o <<[hook |-> "before_wsgi_middlewares", func |-> Callback("_before_config_hook", i)],
         [hook |-> "after_wsgi_middlewares", func |-> Callback("_after_config_hook", i)]>>

\* the four tg.hooks.register calls of __init__, in order
init_registrations(i) ==
    <<[hook |-> "initialized_config", func |-> Callback("_on_config_ready", i)],
      [hook |-> "initialized_config", func |-> Callback("_startup_hook", i)],
      [hook |-> "before_wsgi_middlewares", func |-> Callback("_before_config_hook", i)],
      [hook |-> "after_wsgi_middlewares", func |-> Callback("_after_config_hook", i)]>>

\* calling one registered callable for a hook
Call(f, hook) ==
    LET r == CASE f.func = "_on_config_ready" -> _on_config_ready(f.inst)
               [] f.func = "_startup_hook" -> _startup_hook
               [] f.func = "_before_config_hook" -> _before_config_hook
               [] f.func = "_after_config_hook" -> _after_config_hook
               [] OTHER -> [events |-> <<>>, ok |-> ~f.raises]
    IN  [events |-> <<Event(hook, f, ~r.ok)>> \o r.events, ok |-> r.ok]

\* a hook fired by the configurator: its callables in registration order, an
\* exception ending the firing and reaching the caller
RECURSIVE FireHook(_, _)
FireHook(funcs, hook) ==
    IF funcs = <<>>
    THEN Completed
    ELSE LET r == Call(Head(funcs), hook)
         IN  IF ~r.ok
             THEN r
             ELSE LET rest == FireHook(Tail(funcs), hook)
                  IN  [events |-> r.events \o rest.events, ok |-> rest.ok]

\* application construction by the configurator: initialized_config once the
\* configuration is resolved, before_wsgi_middlewares when the middleware
\* stack is about to be built, after_wsgi_middlewares once it is assembled
Lifecycle ==
    LET r1 == FireHook(hooks["initialized_config"], "initialized_config")
        r2 == IF r1.ok
              THEN FireHook(hooks["before_wsgi_middlewares"], "before_wsgi_middlewares")
              ELSE [events |-> <<>>, ok |-> FALSE]
        r3 == IF r2.ok
              THEN FireHook(hooks["after_wsgi_middlewares"], "after_wsgi_middlewares")
              ELSE [events |-> <<>>, ok |-> FALSE]
    IN  [events |-> r1.events \o r2.events \o r3.events, ok |-> r3.ok]

----------------------------------------------------------------------------
(* AppConfig: the blueprint *)

slots == {<<"_configurator">>}
VIEWS_ATTRIBUTES == {<<"sa_auth">>}

\* the content of the _configurator slot: the configurator with its
\* blueprint, or whatever value an attribute write put in the slot
Configurator(blueprint) == [kind |-> "configurator", blueprint |-> blueprint, val |-> ""]
Foreign(value) == [kind |-> "value", blueprint |-> EmptyMap, val |-> value]

Intact(i) == configurator[i].kind = "configurator"
blueprint(i) == configurator[i].blueprint

\* configurator.update_blueprint(config)
update_blueprint(bp, config) == Update(bp, config)

\* configurator.get_blueprint_value(item)
get_blueprint_value(bp, item) ==
    IF item \in DOMAIN bp THEN Returned(bp[item]) ELSE Raised("KeyError")

\* configurator.get_blueprint_view(item): the sub-mapping of the flat keys item.*
get_blueprint_view(bp, item) ==
    LET p == get_partial_dict(item, bp)
    IN  [kind |-> "view", val |-> "", sub |-> p.val]

\* AppConfig.get_view
get_view(bp, item) == get_blueprint_view(bp, item)

\* AppConfig.__getitem__ without the VIEWS_ATTRIBUTES branch
app_getitem_result_no_view(i, item) ==
    IF ~Intact(i)
    THEN Raised("AttributeError")
    ELSE get_blueprint_value(blueprint(i), item)

\* AppConfig.__getitem__; a value put in the slot is no configurator, and the
\* attribute access on it fails
app_getitem_result(i, item) ==
    IF ~Intact(i)
    THEN Raised("AttributeError")
    ELSE IF item \in VIEWS_ATTRIBUTES
         THEN get_view(blueprint(i), item)
         ELSE get_blueprint_value(blueprint(i), item)

\* AppConfig.__getattr__: self[item], KeyError translated to AttributeError
app_getattr_result(i, item) ==
    LET r == app_getitem_result(i, item)
    IN  IF r.kind = "KeyError" THEN Raised("AttributeError") ELSE r

AppOp(op, i, key, val, res) ==
    /\ last' = [op |-> op, ctx |-> "", inst |-> i, key |-> key, val |-> val, res |-> res]
    /\ UNCHANGED wrapperVars

----------------------------------------------------------------------------
(* AppConfig: the operations *)

\* AppConfig(**kwargs)
AppConfig__init__(kwargs) ==
    /\ ninst < MaxInstances
    /\ ninst' = ninst + 1
    /\ configurator' = Append(configurator, Configurator(update_blueprint(EmptyMap, kwargs)))
    /\ hooks' = register_all(hooks, init_registrations(ninst + 1))
    /\ built' = Append(built, FALSE)
    /\ UNCHANGED <<trace, outcome>>
    /\ AppOp("AppConfig.__init__", ninst + 1, NoKey, "", Done)

\* the blueprint write of __setitem__
setitem_effect(i, key, value) ==
    IF Intact(i)
    THEN configurator' = [configurator EXCEPT
             ![i] = Configurator(update_blueprint(blueprint(i), [k \in {key} |-> value]))]
    ELSE UNCHANGED configurator

AppConfig__setitem__(i, key, value) ==
    /\ i \in 1..ninst
    /\ setitem_effect(i, key, value)
    /\ UNCHANGED <<ninst, hooks, built, trace, outcome>>
    /\ AppOp("AppConfig.__setitem__", i, key, value,
             IF Intact(i) THEN Done ELSE Raised("AttributeError"))

AppConfig__setattr__(i, key, value) ==
    /\ i \in 1..ninst
    /\ IF key \notin slots
       THEN setitem_effect(i, key, value)
       ELSE configurator' = [configurator EXCEPT ![i] = Foreign(value)]
    /\ UNCHANGED <<ninst, hooks, built, trace, outcome>>
    /\ AppOp("AppConfig.__setattr__", i, key, value,
             IF key \in slots \/ Intact(i) THEN Done ELSE Raised("AttributeError"))

AppConfig__getitem__(i, item) ==
    /\ i \in 1..ninst
    /\ UNCHANGED appVars
    /\ AppOp("AppConfig.__getitem__", i, item, "", app_getitem_result(i, item))

AppConfig__getattr__(i, item) ==
    /\ i \in 1..ninst
    /\ UNCHANGED appVars
    /\ AppOp("AppConfig.__getattr__", i, item, "", app_getattr_result(i, item))

\* the blueprint of instance i is passed to application construction
Build(op, i) ==
    /\ i \in 1..ninst
    /\ IF Intact(i)
       THEN /\ trace' = Lifecycle.events
            /\ outcome' = IF Lifecycle.ok THEN "app" ELSE "error"
            /\ built' = [built EXCEPT ![i] = TRUE]
       ELSE /\ trace' = <<>>
            /\ outcome' = "error"
            /\ UNCHANGED built
    /\ UNCHANGED <<configurator, ninst, hooks>>
    /\ AppOp(op, i, NoKey, "", Done)

\* make_wsgi_app(**kwargs): self._configurator.make_wsgi_app(**kwargs)
make_wsgi_app(i) == Build("make_wsgi_app", i)

\* the factory setup_tg_wsgi_app returns, invoked
make_base_app(i) == Build("make_base_app", i)

\* the application registers a listener: tg.hooks.register(hook_name, func)
register(hook_name, raises) ==
    /\ LET n == Len(SelectSeq(hooks["startup"], LAMBDA f : f.func = "listener"))
                + Len(SelectSeq(hooks["before_config"], LAMBDA f : f.func = "listener"))
                + Len(SelectSeq(hooks["before_wsgi_middlewares"], LAMBDA f : f.func = "listener"))
                + Len(SelectSeq(hooks["after_config"], LAMBDA f : f.func = "listener"))
       IN  /\ n < MaxListeners
           /\ hooks' = [hooks EXCEPT ![hook_name] = Append(@, Listener(n + 1, raises))]
    /\ UNCHANGED <<configurator, ninst, built, trace, outcome>>
    /\ AppOp("register", 0, NoKey, "", Done)

----------------------------------------------------------------------------
(* Inputs of the AppConfig operations, and its behaviours *)

AppKeys == {<<"debug">>, <<"sa_auth">>, <<"sa_auth", "cookie_secret">>, <<"_configurator">>}
AppKwargs == {EmptyMap, [k \in {<<"debug">>} |-> "True"]}
ListenerHooks == {"startup", "before_config", "before_wsgi_middlewares", "after_config"}

Counted == nops < MaxAppOps /\ nops' = nops + 1

\* blueprint operations, interleaved with application construction
NextApp ==
    \/ \E kwargs \in AppKwargs : AppConfig__init__(kwargs) /\ Counted
    \/ \E i \in 1..MaxInstances, key \in AppKeys, value \in Values :
           AppConfig__setitem__(i, key, value) /\ Counted
    \/ \E i \in 1..MaxInstances, key \in AppKeys, value \in Values :
           AppConfig__setattr__(i, key, value) /\ Counted
    \/ \E i \in 1..MaxInstances, item \in AppKeys : AppConfig__getitem__(i, item) /\ Counted
    \/ \E i \in 1..MaxInstances, item \in AppKeys : AppConfig__getattr__(i, item) /\ Counted
    \/ \E i \in 1..MaxInstances : make_wsgi_app(i) /\ Counted
    \/ \E i \in 1..MaxInstances : make_base_app(i) /\ Counted

SpecApp == Init /\ [][NextApp]_vars

\* construction of instances, registration of listeners, application builds
NextHooks ==
    \/ AppConfig__init__(EmptyMap) /\ UNCHANGED nops
    \/ \E h \in ListenerHooks, raises \in BOOLEAN : register(h, raises) /\ UNCHANGED nops
    \/ \E i \in 1..MaxInstances : make_wsgi_app(i) /\ UNCHANGED nops
    \/ \E i \in 1..MaxInstances : make_base_app(i) /\ UNCHANGED nops

SpecHooks == Init /\ [][NextHooks]_vars

----------------------------------------------------------------------------
(* Claims about DispatchingConfigWrapper, checked under Spec *)

WriteOps == {"__setitem__", "__setattr__"}
DeleteOps == {"__delattr__", "__delitem__"}

\* the step is a write performed in context a
WriteStepBy(a) == nops' = nops + 1 /\ last'.op \in WriteOps /\ last'.ctx = a

\* C1, as stated: a write (set item or set attr) performed in context a never
\* changes what another context b reads (items, keys, length), in every
\* reachable state, the state right after module load included.
C1_WriteNeverVisibleToOtherContext ==
    [][\A a \in Contexts : \A b \in Contexts \ {a} :
          WriteStepBy(a) => current_conf(b)' = current_conf(b)]_vars

\* C1, amended: a write performed in context a never changes what another
\* context b reads provided a or b has a context-local mapping pushed; with
\* only the process-wide mapping pushed both resolve to that one mapping.
C1_WriteIsolatedWithContextLocalMapping ==
    [][\A a \in Contexts : \A b \in Contexts \ {a} :
          (WriteStepBy(a) /\ (Len(thread_configs[a]) > 0 \/ Len(thread_configs[b]) > 0))
              => current_conf(b)' = current_conf(b)]_vars

\* context A wrote into its own context-local mapping a value B does not read
C1_Witness ==
    /\ last.op \in WriteOps
    /\ last.ctx = "A"
    /\ Len(thread_configs["A"]) > 0
    /\ current_conf("A")[last.key] = last.val
    /\ last.key \in DOMAIN current_conf("B") => current_conf("B")[last.key] # last.val

\* C2, as stated: right after K := V by item access, attribute read of K
\* returns V, and right after K := V by attribute access, item read of K
\* returns V, for every K (provider attribute names included).
C2_ItemAndAttrInterchangeable ==
    /\ last.op = "__setitem__" => getattr_result(last.ctx, last.key) = Returned(last.val)
    /\ last.op = "__setattr__" => getitem_result(last.ctx, last.key) = Returned(last.val)

\* C2, amended: the same for every K that is not an attribute of the
\* provider; for a provider attribute name the attribute read returns the
\* provider's attribute, while the item read still returns V.
C2_InterchangeableUnlessProviderAttr ==
    /\ (last.op = "__setitem__" /\ last.key \notin ProviderAttrs)
           => getattr_result(last.ctx, last.key) = Returned(last.val)
    /\ (last.op = "__setitem__" /\ last.key \in ProviderAttrs)
           => /\ getattr_result(last.ctx, last.key).kind = "provider_attr"
              /\ getitem_result(last.ctx, last.key) = Returned(last.val)
    /\ last.op = "__setattr__" => getitem_result(last.ctx, last.key) = Returned(last.val)

\* after earlier operations, 'tg' was written by item access while keys
\* prefixed by 'tg.' exist, and attribute read returns the value written
C2_Witness ==
    /\ nops >= 2
    /\ last.op = "__setitem__"
    /\ last.key = <<"tg">>
    /\ \E k \in DOMAIN current_conf(last.ctx) : StartsWithDot(k, last.key)
    /\ getattr_result(last.ctx, last.key) = Returned(last.val)

\* the keys of conf of the form K.s
PrefixedBy(K, conf) ==
    {k \in DOMAIN conf : Len(k) > Len(K) /\ \A i \in 1..Len(K) : k[i] = K[i]}

\* C3: attribute read of K, K not an attribute of the provider: when K is a
\* key the exact value is returned; else when keys K.s exist the result is the
\* sub-mapping with exactly the entries s -> current[K.s]; else the read fails
\* with AttributeError (no default value).
C3_AttrReadExactPartialOrNotFound ==
    (last.op = "__getattr__" /\ last.key \notin ProviderAttrs) =>
        LET conf == current_conf(last.ctx)
            K == last.key
            r == last.res
        IN  /\ K \in DOMAIN conf => r = Returned(conf[K])
            /\ (K \notin DOMAIN conf /\ PrefixedBy(K, conf) # {}) =>
                   /\ r.kind = "partial"
                   /\ \A k \in PrefixedBy(K, conf) :
                          \E s \in DOMAIN r.sub : k = K \o s /\ r.sub[s] = conf[k]
                   /\ \A s \in DOMAIN r.sub : K \o s \in PrefixedBy(K, conf)
            /\ (K \notin DOMAIN conf /\ PrefixedBy(K, conf) = {}) =>
                   r.kind = "AttributeError"

\* attribute read of 'tg', absent as a key, grouped the two keys 'tg.*'
C3_Witness ==
    /\ last.op = "__getattr__"
    /\ last.key = <<"tg">>
    /\ last.key \notin DOMAIN current_conf(last.ctx)
    /\ last.res.kind = "partial"
    /\ DOMAIN last.res.sub = {<<"app_globals">>, <<"strict_tmpl_context">>}

\* C4: delete by attribute and delete by item alike: a key of the current
\* mapping is removed and every other entry is kept; for an absent key the
\* operation fails with AttributeError and no mapping changes.
C4_DeleteRemovesOrAttributeError ==
    [][\A c \in Contexts : \A K \in DelKeys :
          (nops' = nops + 1 /\ last'.op \in DeleteOps /\ last'.ctx = c /\ last'.key = K) =>
              IF K \in DOMAIN current_conf(c)
              THEN /\ last'.res.kind = "ok"
                   /\ DOMAIN current_conf(c)' = (DOMAIN current_conf(c)) \ {K}
                   /\ \A k \in (DOMAIN current_conf(c)) \ {K} :
                          current_conf(c)'[k] = current_conf(c)[k]
              ELSE /\ last'.res.kind = "AttributeError"
                   /\ UNCHANGED wrapperVars]_vars

\* a delete by item of an absent key failed with AttributeError
C4_Witness ==
    /\ last.op = "__delitem__"
    /\ last.key \notin DOMAIN current_conf(last.ctx)
    /\ last.res.kind = "AttributeError"

----------------------------------------------------------------------------
(* Claims about AppConfig's lifecycle callbacks, checked under SpecHooks *)

BuildOps == {"make_wsgi_app", "make_base_app"}

\* the state right after an application build driven by instance last.inst
JustBuilt == last.op \in BuildOps /\ Intact(last.inst)

Indexes(P(_)) == {k \in DOMAIN trace : P(trace[k])}

IsStartupListener(e) == e.hook = "startup"
IsBeforeStep(e) == e.hook \in {"before_wsgi_middlewares", "before_config"}
IsAfterStep(e) == e.hook \in {"after_wsgi_middlewares", "after_config"}

\* C5, as stated: in every build driven by an AppConfig, the instance's
\* after_init_config comes first, then the startup listeners, then the
\* before-middleware callbacks, then the after-middleware callbacks; the
\* listeners of one notification run in registration order.
C5_LifecycleOrder ==
    JustBuilt =>
        LET own(e) == e.func = "_on_config_ready" /\ e.inst = last.inst
        IN  /\ \A r \in Indexes(own) : \A st \in Indexes(IsStartupListener) : r < st
            /\ \A r \in Indexes(own) \cup Indexes(IsStartupListener) :
                   \A b \in Indexes(IsBeforeStep) : r < b
            /\ \A b \in Indexes(IsBeforeStep) : \A a \in Indexes(IsAfterStep) : b < a
            /\ \A k \in 1..(Len(trace) - 1) :
                   (/\ trace[k].func = "listener"
                    /\ trace[k + 1].func = "listener"
                    /\ trace[k].hook = trace[k + 1].hook) => trace[k].id < trace[k + 1].id

StartupListenerRaised == \E k \in DOMAIN trace : IsStartupListener(trace[k]) /\ trace[k].raised
OtherListenerRaised ==
    \E k \in DOMAIN trace :
        trace[k].func = "listener" /\ ~IsStartupListener(trace[k]) /\ trace[k].raised

\* C6: a startup listener that raises while _startup_hook notifies the hook
\* does not fail the build: unless a listener of another hook raises, every
\* instance's before- and after-middleware callback still runs and the
\* application is returned.
C6_StartupErrorTrapped ==
    (JustBuilt /\ StartupListenerRaised /\ ~OtherListenerRaised) =>
        /\ outcome = "app"
        /\ \A i \in 1..ninst :
               /\ \E k \in DOMAIN trace : trace[k].func = "_before_config_hook" /\ trace[k].inst = i
               /\ \E k \in DOMAIN trace : trace[k].func = "_after_config_hook" /\ trace[k].inst = i

\* a startup listener raised and the application was returned all the same
C6_Witness ==
    /\ JustBuilt
    /\ StartupListenerRaised
    /\ outcome = "app"
    /\ \E k \in DOMAIN trace : trace[k].func = "_after_config_hook"

\* C7: a listener raising while before_wsgi_middlewares is notified, directly
\* or through _before_config_hook (before_config), fails the build: nothing
\* runs after it and no application is returned.
C7_BeforeMiddlewareErrorPropagates ==
    JustBuilt =>
        \A k \in DOMAIN trace :
            (trace[k].func = "listener" /\ IsBeforeStep(trace[k]) /\ trace[k].raised) =>
                /\ outcome = "error"
                /\ k = Len(trace)

\* a before_config listener, reached through _before_config_hook, raised and
\* the build failed
C7_Witness ==
    /\ JustBuilt
    /\ outcome = "error"
    /\ Len(trace) > 0
    /\ trace[Len(trace)].hook = "before_config"
    /\ trace[Len(trace)].raised

CountIn(seq, f) == Cardinality({k \in DOMAIN seq : seq[k] = f})
CountFunc(seq, name) == Cardinality({k \in DOMAIN seq : seq[k].func = name})

\* C10: the process-wide hooks hold, for each instance constructed, exactly
\* its two initialized_config callbacks and one callback on each of
\* before_wsgi_middlewares and after_wsgi_middlewares, whatever operations
\* followed; so with n instances one firing of initialized_config calls
\* after_init_config once per instance and notifies startup n times.
C10_CallbacksAccumulate ==
    /\ \A i \in 1..ninst :
           /\ CountIn(hooks["initialized_config"], Callback("_on_config_ready", i)) = 1
           /\ CountIn(hooks["initialized_config"], Callback("_startup_hook", i)) = 1
           /\ CountIn(hooks["before_wsgi_middlewares"], Callback("_before_config_hook", i)) = 1
           /\ CountIn(hooks["after_wsgi_middlewares"], Callback("_after_config_hook", i)) = 1
    /\ Len(hooks["initialized_config"]) = 2 * ninst
    /\ CountFunc(hooks["before_wsgi_middlewares"], "_before_config_hook") = ninst
    /\ CountFunc(hooks["after_wsgi_middlewares"], "_after_config_hook") = ninst
    /\ JustBuilt =>
           /\ \A i \in 1..ninst :
                  Cardinality({k \in DOMAIN trace :
                                  trace[k].func = "_on_config_ready" /\ trace[k].inst = i}) = 1
           /\ CountFunc(trace, "_startup_hook") = ninst
           /\ \A j \in DOMAIN hooks["startup"] :
                  Cardinality({k \in DOMAIN trace :
                                  /\ IsStartupListener(trace[k])
                                  /\ trace[k].id = hooks["startup"][j].id}) = ninst

\* two instances were constructed and one build called a startup listener twice
C10_Witness ==
    /\ JustBuilt
    /\ ninst = 2
    /\ Len(hooks["startup"]) > 0
    /\ Cardinality(Indexes(IsStartupListener)) = 2 * Len(hooks["startup"])
    /\ CountFunc(trace, "_on_config_ready") = 2

----------------------------------------------------------------------------
(* Claims about AppConfig's blueprint, checked under SpecApp *)

AppWriteOps == {"AppConfig.__setitem__", "AppConfig.__setattr__"}
AppReadOps == {"AppConfig.__getitem__", "AppConfig.__getattr__"}

\* the entries of bp under the keys K.s, by suffix s
EntriesUnder(K, bp, sub) ==
    /\ \A k \in PrefixedBy(K, bp) : \E t \in DOMAIN sub : k = K \o t /\ sub[t] = bp[k]
    /\ \A t \in DOMAIN sub : K \o t \in PrefixedBy(K, bp)

\* what C8 says a read of K returns, given the blueprint bp
ReadAgrees(op, K, bp, r) ==
    IF K \in VIEWS_ATTRIBUTES
    THEN r.kind = "view" /\ EntriesUnder(K, bp, r.sub)
    ELSE IF K \in DOMAIN bp
         THEN r = Returned(bp[K])
         ELSE r.kind = (IF op = "AppConfig.__getattr__" THEN "AttributeError" ELSE "KeyError")

\* C8: on an AppConfig whose configurator is in place, set item and set attr
\* of K (K not the slot name) merge {K: V} into the blueprint and leave the
\* rest alone, after which get item and get attr of a non-view K return V;
\* get item and get attr of a view key return the view of the keys K.*, not
\* the stored value; get attr of an absent key fails with AttributeError.
C8_BlueprintAccess ==
    [][\A i \in 1..MaxInstances : \A K \in AppKeys :
          (i <= ninst /\ Intact(i) /\ last'.inst = i /\ last'.key = K) =>
              /\ (last'.op \in AppWriteOps /\ K \notin slots) =>
                     /\ DOMAIN blueprint(i)' = (DOMAIN blueprint(i)) \cup {K}
                     /\ blueprint(i)'[K] = last'.val
                     /\ \A k \in (DOMAIN blueprint(i)) \ {K} : blueprint(i)'[k] = blueprint(i)[k]
                     /\ \A j \in (1..ninst) \ {i} : configurator'[j] = configurator[j]
                     /\ K \notin VIEWS_ATTRIBUTES =>
                            /\ app_getitem_result(i, K)' = Returned(last'.val)
                            /\ app_getattr_result(i, K)' = Returned(last'.val)
              /\ last'.op \in AppReadOps => ReadAgrees(last'.op, K, blueprint(i), last'.res)]_vars

\* 'sa_auth' holds a stored value, and attribute read returned the view of
\* the keys 'sa_auth.*' instead
C8_Witness ==
    /\ last.op = "AppConfig.__getattr__"
    /\ last.key = <<"sa_auth">>
    /\ Intact(last.inst)
    /\ <<"sa_auth">> \in DOMAIN blueprint(last.inst)
    /\ last.res.kind = "view"
    /\ DOMAIN last.res.sub = {<<"cookie_secret">>}

\* C9, as stated: once the blueprint of instance i was passed to application
\* construction, no later operation changes any of its keys or values.
C9_BlueprintFrozenOnceBuilt ==
    [][\A i \in 1..MaxInstances :
          (i <= ninst /\ built[i] /\ configurator'[i].kind = "configurator")
              => configurator'[i].blueprint = configurator[i].blueprint]_vars

====
